---- MODULE Spec2Model ----
(***************************************************************************)
(* The catalog controllers of express-locallibrary-tutorial (Genre,       *)
(* Author and Book request handlers) over the document store they share.  *)
(*                                                                         *)
(* A text value is a sequence of one-character strings.  A document       *)
(* identity is a positive number assigned by a per-collection counter and *)
(* never reused; 0 stands for an absent or empty identity field.  A       *)
(* lookup by identity yields a sequence: << >> for null, <<doc>> for a    *)
(* document.  A response is the sequence of calls a handler made on res   *)
(* and next, in order.                                                     *)
(***************************************************************************)
EXTENDS Naturals, Sequences, FiniteSets

VARIABLES genres, authors, books, instances, made, resp, procs

vars == <<genres, authors, books, instances, made, resp, procs>>
store == <<genres, authors, books, instances, made>>

(***************************************************************************)
(* Bounds of the model.                                                    *)
(***************************************************************************)
MaxGenres == 2
MaxAuthors == 1
MaxBooks == 1
MaxInstances == 1
MaxProcs == 2

GenreIds == 1..MaxGenres
AuthorIds == 1..MaxAuthors
BookIds == 1..MaxBooks
Procs == 1..MaxProcs

(***************************************************************************)
(* Text: the sanitizers and validators of express-validator the handlers  *)
(* chain, computed character by character.                                 *)
(***************************************************************************)
UpperLetters == <<"A","B","C","D","E","F","G","H","I","J","K","L","M",
                  "N","O","P","Q","R","S","T","U","V","W","X","Y","Z">>
LowerLetters == <<"a","b","c","d","e","f","g","h","i","j","k","l","m",
                  "n","o","p","q","r","s","t","u","v","w","x","y","z">>
DigitChars == <<"0","1","2","3","4","5","6","7","8","9">>
\* the characters of the model in code point order
Alphabet ==
  <<" ","#","&","'","-","/">> \o DigitChars \o <<";","<",">">>
    \o UpperLetters \o LowerLetters

Range(s) == {s[i] : i \in DOMAIN s}

RECURSIVE TrimLeft(_)
TrimLeft(s) == IF s # << >> /\ Head(s) = " " THEN TrimLeft(Tail(s)) ELSE s

RECURSIVE TrimRight(_)
TrimRight(s) ==
  IF s # << >> /\ s[Len(s)] = " " THEN TrimRight(SubSeq(s, 1, Len(s) - 1)) ELSE s

Trim(s) == TrimRight(TrimLeft(s))

EscapeChar(c) ==
  CASE c = "&" -> <<"&","a","m","p",";">>
    [] c = "<" -> <<"&","l","t",";">>
    [] c = ">" -> <<"&","g","t",";">>
    [] c = "'" -> <<"&","#","x","2","7",";">>
    [] c = "/" -> <<"&","#","x","2","F",";">>
    [] OTHER -> <<c>>

RECURSIVE Escape(_)
Escape(s) == IF s = << >> THEN << >> ELSE EscapeChar(Head(s)) \o Escape(Tail(s))

AlphanumericChars == Range(UpperLetters) \cup Range(LowerLetters) \cup Range(DigitChars)

IsAlphanumeric(s) ==
  /\ s # << >>
  /\ \A i \in DOMAIN s : s[i] \in AlphanumericChars

IsDigit(c) == c \in Range(DigitChars)
DigitValue(c) == (CHOOSE i \in DOMAIN DigitChars : DigitChars[i] = c) - 1

CodePoint(c) == CHOOSE i \in DOMAIN Alphabet : Alphabet[i] = c

\* s sorts before or with t in the binary order of the store
RECURSIVE TextLeq(_, _)
TextLeq(s, t) ==
  IF s = << >> THEN TRUE
  ELSE IF t = << >> THEN FALSE
  ELSE IF Head(s) # Head(t) THEN CodePoint(Head(s)) < CodePoint(Head(t))
  ELSE TextLeq(Tail(s), Tail(t))

LowerChar(c) ==
  IF \E i \in DOMAIN UpperLetters : UpperLetters[i] = c
  THEN LowerLetters[CHOOSE i \in DOMAIN UpperLetters : UpperLetters[i] = c]
  ELSE c

LowerCase(s) == [i \in DOMAIN s |-> LowerChar(s[i])]

\* equality of two names under the collation { locale: 'en', strength: 2 }
CollationEqual(s, t) == LowerCase(s) = LowerCase(t)

(***************************************************************************)
(* The store: each collection is a function from the identities of its    *)
(* documents to the documents.                                             *)
(***************************************************************************)
Insert(coll, id, doc) ==
  [x \in DOMAIN coll \cup {id} |-> IF x = id THEN doc ELSE coll[x]]

Remove(coll, id) == [x \in DOMAIN coll \ {id} |-> coll[x]]

FindById(coll, id) ==
  IF id \in DOMAIN coll THEN <<coll[id]>> ELSE << >>

NewId(kind) == made[kind] + 1

Init ==
  /\ genres = << >>
  /\ authors = << >>
  /\ books = << >>
  /\ instances = << >>
  /\ made = [Genre |-> 0, Author |-> 0, Book |-> 0, BookInstance |-> 0]
  /\ resp = [op |-> "none", id |-> 0, body |-> << >>, calls |-> << >>]
  /\ procs = [p \in Procs |-> [pc |-> "idle"]]

(***************************************************************************)
(* Calls a handler makes on the response object and on next.              *)
(***************************************************************************)
Redirect(url) == [kind |-> "redirect", url |-> url]
Render(view, locals) == [kind |-> "render", view |-> view, locals |-> locals]
NextError(message, status) == [kind |-> "next", message |-> message, status |-> status]
Send(text) == [kind |-> "send", text |-> text]

\* status 0: the error object carries no status property
NoStatus == 0
\* the status the error handler of the application answers with
ErrorStatus(err) == IF err.status = NoStatus THEN 500 ELSE err.status

\* reading a property of null: the TypeError express-async-handler passes to next
NullDereference == NextError("TypeError", NoStatus)

\* a handled request and its outcome: the handler, req.params.id (0 when the
\* route has none), req.body as submitted, and the calls made in answer
NoBody == << >>
Response(op, id, body, calls) ==
  [op |-> op, id |-> id, body |-> body, calls |-> calls]

GenreUrl(id) == <<"/catalog/genre", id>>
AuthorUrl(id) == <<"/catalog/author", id>>
BookUrl(id) == <<"/catalog/book", id>>
GenresUrl == <<"/catalog/genres">>
AuthorsUrl == <<"/catalog/authors">>
BooksUrl == <<"/catalog/books">>

(***************************************************************************)
(* Queries.                                                                *)
(***************************************************************************)
\* Book.find({ genre: id }, 'title summary')
BooksInGenre(id) ==
  {[id |-> b, title |-> books[b].title, summary |-> books[b].summary] :
     b \in {x \in DOMAIN books : id \in Range(books[x].genre)}}

\* Book.find({ author: id }, 'title summary')
BooksByAuthor(id) ==
  {[id |-> b, title |-> books[b].title, summary |-> books[b].summary] :
     b \in {x \in DOMAIN books : books[x].author = id}}

\* BookInstance.find({ book: id })
InstancesOfBook(id) ==
  {instances[i] : i \in {x \in DOMAIN instances : instances[x].book = id}}

\* the lookup of genre_create_post without its collation
GenresNamedWithoutCollation(name) == {g \in DOMAIN genres : genres[g].name = name}

\* Genre.findOne({ name }).collation({ locale: 'en', strength: 2 }): the candidates
GenresNamedIgnoringCase(name) ==
  {g \in DOMAIN genres : CollationEqual(genres[g].name, name)}

\* the lookup of genre_update_post with the collation of genre_create_post
GenresNamedWithCollation(name) ==
  {g \in DOMAIN genres : CollationEqual(genres[g].name, name)}

\* Genre.findOne({ name }): the candidates
GenresNamed(name) == {g \in DOMAIN genres : genres[g].name = name}

(***************************************************************************)
(* Genre controller.                                                       *)
(***************************************************************************)
GenreNameInputs ==
  { <<" ","S","F"," ">>, <<"S","c","i">>, <<" ","s","c","i">>, <<"R","&","B">> }

MinGenreName == 3

\* body('name', ...).trim().isLength({ min: 3 }).escape(): the value left in req.body
GenreNameSanitized(raw) == Escape(Trim(raw))

\* ... and the errors validationResult(req) holds
GenreNameErrors(raw) ==
  IF Len(Trim(raw)) >= MinGenreName THEN << >>
  ELSE <<"Genre name must contain at least 3 characters">>

genre_detail(id) ==
  LET genre == FindById(genres, id)
      booksInGenre == BooksInGenre(id)
  IN /\ resp' = Response("genre_detail", id, NoBody,
                   IF genre = << >>
                   THEN <<NextError("Genre not found", 404)>>
                   ELSE <<Render("genre_detail",
                            [title |-> "Genre Detail", genre |-> genre,
                             genre_books |-> booksInGenre])>>)
     /\ UNCHANGED <<store, procs>>

genre_create_post(raw) ==
  LET errors == GenreNameErrors(raw)
      name == GenreNameSanitized(raw)
      genre == [id |-> NewId("Genre"), name |-> name]
      genreExists == GenresNamedIgnoringCase(name)
  IN IF errors # << >>
     THEN /\ resp' = Response("genre_create_post", 0, [name |-> raw],
                        <<Render("genre_form",
                            [title |-> "Create Genre", genre |-> <<genre>>,
                             errors |-> errors])>>)
          /\ UNCHANGED <<store, procs>>
     ELSE IF genreExists # {}
     THEN /\ \E e \in genreExists :
               resp' = Response("genre_create_post", 0, [name |-> raw], <<Redirect(GenreUrl(e))>>)
          /\ UNCHANGED <<store, procs>>
     ELSE /\ made.Genre < MaxGenres
          /\ genres' = Insert(genres, genre.id, genre)
          /\ made' = [made EXCEPT !.Genre = genre.id]
          /\ resp' = Response("genre_create_post", 0, [name |-> raw], <<Redirect(GenreUrl(genre.id))>>)
          /\ UNCHANGED <<authors, books, instances, procs>>

genre_delete_get(id) ==
  LET genre == FindById(genres, id)
      allBooksInGenre == BooksInGenre(id)
      render == Render("genre_delete",
                  [title |-> "Delete Genre", genre |-> genre,
                   genre_books |-> allBooksInGenre])
  IN /\ resp' = Response("genre_delete_get", id, NoBody,
                   IF genre = << >>
                   THEN <<Redirect(GenresUrl), render>>
                   ELSE <<render>>)
     /\ UNCHANGED <<store, procs>>

\* genre_delete_post without the test of the Books found
genre_delete_post_unguarded(id, genreid) ==
  /\ genres' = Remove(genres, genreid)
  /\ resp' = Response("genre_delete_post", id, [genreid |-> genreid], <<Redirect(GenresUrl)>>)
  /\ UNCHANGED <<authors, books, instances, made, procs>>

genre_delete_post(id, genreid) ==
  LET genre == FindById(genres, id)
      allBooksInGenre == BooksInGenre(id)
  IN IF Cardinality(allBooksInGenre) > 0
     THEN /\ resp' = Response("genre_delete_post", id, [genreid |-> genreid],
                        <<Render("genre_delete",
                            [title |-> "Delete Genre", genre |-> genre,
                             genre_books |-> allBooksInGenre])>>)
          /\ UNCHANGED <<store, procs>>
     ELSE /\ genres' = Remove(genres, genreid)
          /\ resp' = Response("genre_delete_post", id, [genreid |-> genreid], <<Redirect(GenresUrl)>>)
          /\ UNCHANGED <<authors, books, instances, made, procs>>

genre_update_get(id) ==
  LET genre == FindById(genres, id)
  IN /\ resp' = Response("genre_update_get", id, NoBody,
                   IF genre = << >>
                   THEN <<NextError("Genre not found", 404)>>
                   ELSE <<Render("genre_form",
                            [title |-> "Update Genre", genre |-> genre])>>)
     /\ UNCHANGED <<store, procs>>

genre_update_post(id, raw) ==
  LET errors == GenreNameErrors(raw)
      name == GenreNameSanitized(raw)
      genre == [id |-> id, name |-> name]
      genreExists == GenresNamed(name)
  IN IF errors # << >>
     THEN /\ resp' = Response("genre_update_post", id, [name |-> raw],
                        <<Render("genre_form",
                            [title |-> "Update Genre", genre |-> <<genre>>,
                             errors |-> errors])>>)
          /\ UNCHANGED <<store, procs>>
     ELSE IF genreExists # {}
     THEN /\ \E e \in genreExists :
               resp' = Response("genre_update_post", id, [name |-> raw], <<Redirect(GenreUrl(e))>>)
          /\ UNCHANGED <<store, procs>>
     ELSE \* findByIdAndUpdate answers the document found, or null
          LET updatedGenre == FindById(genres, id)
          IN /\ genres' = IF updatedGenre = << >> THEN genres
                          ELSE [genres EXCEPT ![id] = genre]
             /\ resp' = Response("genre_update_post", id, [name |-> raw],
                           IF updatedGenre = << >> THEN <<NullDereference>>
                           ELSE <<Redirect(GenreUrl(updatedGenre[1].id))>>)
             /\ UNCHANGED <<authors, books, instances, made, procs>>

(***************************************************************************)
(* Author controller.                                                      *)
(***************************************************************************)
NoDate == << >>

\* isISO8601() on a calendar date yyyy-mm-dd
IsISO8601(d) ==
  /\ Len(d) = 10
  /\ d[5] = "-" /\ d[8] = "-"
  /\ \A i \in {1, 2, 3, 4, 6, 7, 9, 10} : IsDigit(d[i])
  /\ LET month == 10 * DigitValue(d[6]) + DigitValue(d[7])
         day == 10 * DigitValue(d[9]) + DigitValue(d[10])
     IN month \in 1..12 /\ day \in 1..31

\* toDate(): the Date of the text, or null
ToDate(d) ==
  IF IsISO8601(d)
  THEN <<[year |-> 1000 * DigitValue(d[1]) + 100 * DigitValue(d[2])
                     + 10 * DigitValue(d[3]) + DigitValue(d[4]),
          month |-> 10 * DigitValue(d[6]) + DigitValue(d[7]),
          day |-> 10 * DigitValue(d[9]) + DigitValue(d[10])]>>
  ELSE NoDate

\* optional({ values: 'falsy' }): an empty field is neither validated nor converted
DateSanitized(d) == IF d = << >> THEN NoDate ELSE ToDate(d)

AuthorNameErrors(raw, missing, nonAlphanumeric) ==
  (IF Len(Trim(raw)) >= 1 THEN << >> ELSE <<missing>>)
    \o (IF IsAlphanumeric(Escape(Trim(raw))) THEN << >> ELSE <<nonAlphanumeric>>)

DateErrors(d, invalid) ==
  IF d = << >> \/ IsISO8601(d) THEN << >> ELSE <<invalid>>

AuthorFormErrors(form) ==
  AuthorNameErrors(form.first_name, "First name must be specified.",
                   "First name has non-alphanumeric characters.")
    \o AuthorNameErrors(form.family_name, "Family name must be specified.",
                        "Family has non-alphanumeric characters")
    \o DateErrors(form.date_of_birth, "Invalid date of birth")
    \o DateErrors(form.date_of_death, "Invalid date of death")

AuthorFormInputs ==
  { [first_name |-> <<" ","P","a","t"," ">>, family_name |-> <<"D","o","e">>,
     date_of_birth |-> <<"1","9","8","0","-","0","1","-","0","1">>,
     date_of_death |-> << >>],
    [first_name |-> <<" ">>, family_name |-> <<"D","o","e">>,
     date_of_birth |-> << >>, date_of_death |-> << >>],
    [first_name |-> <<"P","a","t">>, family_name |-> <<"O","'","N">>,
     date_of_birth |-> << >>, date_of_death |-> << >>],
    [first_name |-> <<"P","a","t">>, family_name |-> <<"D","o","e">>,
     date_of_birth |-> << >>,
     date_of_death |-> <<"1","9","8","0","-","1","3","-","0","1">>] }

author_detail(id) ==
  LET author == FindById(authors, id)
      allBooksByAuthor == BooksByAuthor(id)
  IN /\ resp' = Response("author_detail", id, NoBody,
                   IF author = << >>
                   THEN <<NextError("Author not found", 404)>>
                   ELSE <<Render("author_detail",
                            [title |-> "Author Detail", author |-> author,
                             author_books |-> allBooksByAuthor])>>)
     /\ UNCHANGED <<store, procs>>

\* new Author({ ... }) of the sanitized fields
AuthorOfForm(id, form) ==
  [id |-> id,
   first_name |-> Escape(Trim(form.first_name)),
   family_name |-> Escape(Trim(form.family_name)),
   date_of_birth |-> DateSanitized(form.date_of_birth),
   date_of_death |-> DateSanitized(form.date_of_death)]

author_create_post(form) ==
  LET errors == AuthorFormErrors(form)
      author == AuthorOfForm(NewId("Author"), form)
  IN IF errors # << >>
     THEN /\ resp' = Response("author_create_post", 0, form,
                        <<Render("author_form",
                            [title |-> "Create Author", author |-> <<author>>,
                             errors |-> errors])>>)
          /\ UNCHANGED <<store, procs>>
     ELSE /\ made.Author < MaxAuthors
          /\ authors' = Insert(authors, author.id, author)
          /\ made' = [made EXCEPT !.Author = author.id]
          /\ resp' = Response("author_create_post", 0, form,
                        <<Redirect(AuthorUrl(author.id))>>)
          /\ UNCHANGED <<genres, books, instances, procs>>

author_delete_get(id) ==
  LET author == FindById(authors, id)
      allBooksByAuthor == BooksByAuthor(id)
      render == Render("author_delete",
                  [title |-> "Delete Author", author |-> author,
                   author_books |-> allBooksByAuthor])
  IN /\ resp' = Response("author_delete_get", id, NoBody,
                   IF author = << >>
                   THEN <<Redirect(AuthorsUrl), render>>
                   ELSE <<render>>)
     /\ UNCHANGED <<store, procs>>

author_delete_post(id, authorid) ==
  LET author == FindById(authors, id)
      allBooksByAuthor == BooksByAuthor(id)
  IN IF Cardinality(allBooksByAuthor) > 0
     THEN /\ resp' = Response("author_delete_post", id, [authorid |-> authorid],
                        <<Render("author_delete",
                            [title |-> "Delete Author", author |-> author,
                             author_books |-> allBooksByAuthor])>>)
          /\ UNCHANGED <<store, procs>>
     ELSE /\ authors' = Remove(authors, authorid)
          /\ resp' = Response("author_delete_post", id, [authorid |-> authorid],
                        <<Redirect(AuthorsUrl)>>)
          /\ UNCHANGED <<genres, books, instances, made, procs>>

author_update_get(id) ==
  /\ resp' = Response("author_update_get", id, NoBody,
                <<Send("NOT IMPLEMENTED: Author update GET")>>)
  /\ UNCHANGED <<store, procs>>

author_update_post(id) ==
  /\ resp' = Response("author_update_post", id, NoBody,
                <<Send("NOT IMPLEMENTED: Author update POST")>>)
  /\ UNCHANGED <<store, procs>>

(***************************************************************************)
(* Book controller.                                                        *)
(***************************************************************************)
\* Genre.find().sort({ name: 1 }) over the documents identified by ids
RECURSIVE GenresSorted(_)
GenresSorted(ids) ==
  IF ids = {} THEN << >>
  ELSE LET first == CHOOSE g \in ids :
                      \A h \in ids : TextLeq(genres[g].name, genres[h].name)
       IN <<genres[first]>> \o GenresSorted(ids \ {first})

\* Author.find().sort({ family_name: 1 }) over the documents identified by ids
RECURSIVE AuthorsSorted(_)
AuthorsSorted(ids) ==
  IF ids = {} THEN << >>
  ELSE LET first == CHOOSE a \in ids :
                      \A b \in ids :
                        TextLeq(authors[a].family_name, authors[b].family_name)
       IN <<authors[first]>> \o AuthorsSorted(ids \ {first})

\* populate('genre'): the documents of the identities that have one, in order
RECURSIVE PopulateGenre(_)
PopulateGenre(ids) ==
  IF ids = << >> THEN << >>
  ELSE FindById(genres, Head(ids)) \o PopulateGenre(Tail(ids))

\* Book.findById(id).populate('author').populate('genre')
FindBookPopulated(id) ==
  IF id \in DOMAIN books
  THEN <<[books[id] EXCEPT !.author = FindById(authors, books[id].author),
                           !.genre = PopulateGenre(books[id].genre)]>>
  ELSE << >>

\* Book.findById(id).populate('author')
FindBookWithAuthor(id) ==
  IF id \in DOMAIN books
  THEN <<[books[id] EXCEPT !.author = FindById(authors, books[id].author)]>>
  ELSE << >>

\* the genre documents of the form, those of selected marked checked
MarkChecked(allGenres, selected) ==
  [i \in DOMAIN allGenres |->
     [id |-> allGenres[i].id, name |-> allGenres[i].name,
      checked |-> allGenres[i].id \in Range(selected)]]

\* the genre field of a submitted form: absent, one value, or a list
Undefined == [type |-> "undefined"]
Single(v) == [type |-> "string", value |-> v]
Array(items) == [type |-> "array", items |-> items]

\* a conversion that keeps lists only: one value is dropped with the absent field
GenreToArrayDroppingSingle(genre) ==
  IF genre.type # "array" THEN Array(<< >>) ELSE genre

\* the first middleware of book_create_post and book_update_post
GenreToArray(genre) ==
  IF genre.type # "array"
  THEN Array(IF genre.type = "undefined" THEN << >> ELSE <<genre.value>>)
  ELSE genre

MaxGenreList == 2

\* a urlencoded form yields a list only for two values or more
GenreLists == UNION {[1..n -> GenreIds] : n \in 2..MaxGenreList}

GenreFieldInputs ==
  {Undefined} \cup {Single(g) : g \in GenreIds} \cup {Array(l) : l \in GenreLists}

\* submitted Book forms; the author field 0 is the empty selection
ValidBookText ==
  [title |-> <<" ","D","u","n","e">>, summary |-> <<"S","<">>, isbn |-> <<"9">>]

BookForm(text, author, genre) ==
  [title |-> text.title, summary |-> text.summary, isbn |-> text.isbn,
   author |-> author, genre |-> genre]

BookFormInputs ==
  {BookForm(ValidBookText, a, g) : a \in AuthorIds, g \in GenreFieldInputs}
    \cup
  { BookForm([ValidBookText EXCEPT !.title = <<" ">>], 1, Single(1)),
    BookForm([ValidBookText EXCEPT !.summary = << >>], 1, Undefined),
    BookForm([ValidBookText EXCEPT !.isbn = <<" "," ">>], 0, Array(<<1, 2>>)),
    BookForm(ValidBookText, 0, Single(2)) }

RequiredErrors(raw, message) ==
  IF Len(Trim(raw)) >= 1 THEN << >> ELSE <<message>>

\* the validation chain of the Book forms without the rule of the summary
BookFormErrorsWithoutSummary(form, isbnMessage) ==
  RequiredErrors(form.title, "Title must not be empty.")
    \o (IF form.author # 0 THEN << >> ELSE <<"Author must not be empty.">>)
    \o RequiredErrors(form.isbn, isbnMessage)

BookFormErrors(form, isbnMessage) ==
  RequiredErrors(form.title, "Title must not be empty.")
    \o (IF form.author # 0 THEN << >> ELSE <<"Author must not be empty.">>)
    \o RequiredErrors(form.summary, "Summary must not be empty.")
    \o RequiredErrors(form.isbn, isbnMessage)

\* a Book that keeps the first selected genre only
BookOfFormFirstGenre(id, form) ==
  [id |-> id,
   title |-> Escape(Trim(form.title)),
   author |-> form.author,
   summary |-> Escape(Trim(form.summary)),
   isbn |-> Escape(Trim(form.isbn)),
   genre |-> IF GenreToArray(form.genre).items = << >> THEN << >>
             ELSE <<Head(GenreToArray(form.genre).items)>>]

\* new Book({ ... }) of the sanitized fields
BookOfForm(id, form) ==
  [id |-> id,
   title |-> Escape(Trim(form.title)),
   author |-> form.author,
   summary |-> Escape(Trim(form.summary)),
   isbn |-> Escape(Trim(form.isbn)),
   genre |-> GenreToArray(form.genre).items]

book_detail(id) ==
  LET book == FindBookPopulated(id)
      bookInstances == InstancesOfBook(id)
  IN /\ resp' = Response("book_detail", id, NoBody,
                   IF book = << >>
                   THEN <<NextError("Book not found", 404)>>
                   ELSE <<Render("book_detail",
                            [title |-> book[1].title, book |-> book,
                             book_instances |-> bookInstances])>>)
     /\ UNCHANGED <<store, procs>>

book_create_get ==
  LET allAuthors == AuthorsSorted(DOMAIN authors)
      allGenres == GenresSorted(DOMAIN genres)
  IN /\ resp' = Response("book_create_get", 0, NoBody,
                   <<Render("book_form",
                       [title |-> "Create Book", authors |-> allAuthors,
                        genres |-> allGenres])>>)
     /\ UNCHANGED <<store, procs>>

book_create_post(form) ==
  LET errors == BookFormErrors(form, "ISBN must not be empty")
      book == BookOfForm(NewId("Book"), form)
  IN IF errors # << >>
     THEN LET allAuthors == AuthorsSorted(DOMAIN authors)
              allGenres == GenresSorted(DOMAIN genres)
          IN /\ resp' = Response("book_create_post", 0, form,
                           <<Render("book_form",
                               [title |-> "Create Book", authors |-> allAuthors,
                                genres |-> MarkChecked(allGenres, book.genre),
                                book |-> <<book>>, errors |-> errors])>>)
             /\ UNCHANGED <<store, procs>>
     ELSE /\ made.Book < MaxBooks
          /\ books' = Insert(books, book.id, book)
          /\ made' = [made EXCEPT !.Book = book.id]
          /\ resp' = Response("book_create_post", 0, form, <<Redirect(BookUrl(book.id))>>)
          /\ UNCHANGED <<genres, authors, instances, procs>>

book_delete_get(id) ==
  LET book == FindBookPopulated(id)
      bookInstances == InstancesOfBook(id)
      render == Render("book_delete",
                  [title |-> "Delete Book", book |-> book,
                   book_instances |-> bookInstances])
  IN /\ resp' = Response("book_delete_get", id, NoBody,
                   IF book = << >>
                   THEN <<Redirect(BooksUrl), render>>
                   ELSE <<render>>)
     /\ UNCHANGED <<store, procs>>

\* book_delete_post without the test of the copies found
book_delete_post_unguarded(id, bookid) ==
  /\ books' = Remove(books, bookid)
  /\ resp' = Response("book_delete_post", id, [bookid |-> bookid], <<Redirect(BooksUrl)>>)
  /\ UNCHANGED <<genres, authors, instances, made, procs>>

book_delete_post(id, bookid) ==
  LET book == FindBookPopulated(id)
      bookInstances == {[id |-> i.id, imprint |-> i.imprint] : i \in InstancesOfBook(id)}
  IN IF Cardinality(bookInstances) > 0
     THEN /\ resp' = Response("book_delete_post", id, [bookid |-> bookid],
                        <<Render("book_delete",
                            [title |-> "Delete Book", book |-> book,
                             book_instances |-> bookInstances])>>)
          /\ UNCHANGED <<store, procs>>
     ELSE /\ books' = Remove(books, bookid)
          /\ resp' = Response("book_delete_post", id, [bookid |-> bookid], <<Redirect(BooksUrl)>>)
          /\ UNCHANGED <<genres, authors, instances, made, procs>>

book_update_get(id) ==
  LET book == FindBookWithAuthor(id)
      allAuthors == AuthorsSorted(DOMAIN authors)
      allGenres == GenresSorted(DOMAIN genres)
  IN /\ resp' = Response("book_update_get", id, NoBody,
                   IF book = << >>
                   THEN <<NextError("Book not found", 404)>>
                   ELSE <<Render("book_form",
                            [title |-> "Update Book", authors |-> allAuthors,
                             genres |-> MarkChecked(allGenres, book[1].genre),
                             book |-> book])>>)
     /\ UNCHANGED <<store, procs>>

book_update_post(id, form) ==
  LET errors == BookFormErrors(form, "ISBN must not be empty.")
      book == BookOfForm(id, form)
  IN IF errors # << >>
     THEN LET allAuthors == AuthorsSorted(DOMAIN authors)
              allGenres == GenresSorted(DOMAIN genres)
          IN /\ resp' = Response("book_update_post", id, form,
                           <<Render("book_form",
                               [title |-> "Update Book", authors |-> allAuthors,
                                genres |-> MarkChecked(allGenres, book.genre),
                                book |-> <<book>>, errors |-> errors])>>)
             /\ UNCHANGED <<store, procs>>
     ELSE \* findByIdAndUpdate answers the document found, or null
          LET updatedBook == FindById(books, id)
          IN /\ books' = IF updatedBook = << >> THEN books
                         ELSE [books EXCEPT ![id] = book]
             /\ resp' = Response("book_update_post", id, form,
                           IF updatedBook = << >> THEN <<NullDereference>>
                           ELSE <<Redirect(BookUrl(updatedBook[1].id))>>)
             /\ UNCHANGED <<genres, authors, instances, made, procs>>

(***************************************************************************)
(* BookInstance create: the one operation on copies the catalog needs     *)
(* here, a copy of the Book the form names.                                *)
(***************************************************************************)
bookinstance_create_post(book) ==
  LET bookinstance == [id |-> NewId("BookInstance"), book |-> book,
                       imprint |-> <<"1","e","d">>, status |-> "Maintenance"]
  IN /\ made.BookInstance < MaxInstances
     /\ instances' = Insert(instances, bookinstance.id, bookinstance)
     /\ made' = [made EXCEPT !.BookInstance = bookinstance.id]
     /\ resp' = Response("bookinstance_create_post", 0, [book |-> book],
                   <<Redirect(<<"/catalog/bookinstance", bookinstance.id>>)>>)
     /\ UNCHANGED <<genres, authors, books, procs>>

(***************************************************************************)
(* Requests handled one at a time: every handler runs to its end before   *)
(* the next request starts.                                                *)
(***************************************************************************)
Next ==
  \/ \E id \in GenreIds : genre_detail(id)
  \/ \E raw \in GenreNameInputs : genre_create_post(raw)
  \/ \E id \in GenreIds : genre_delete_get(id)
  \/ \E id \in GenreIds, genreid \in GenreIds : genre_delete_post(id, genreid)
  \/ \E id \in GenreIds : genre_update_get(id)
  \/ \E id \in GenreIds, raw \in GenreNameInputs : genre_update_post(id, raw)
  \/ \E id \in AuthorIds : author_detail(id)
  \/ \E form \in AuthorFormInputs : author_create_post(form)
  \/ \E id \in AuthorIds : author_delete_get(id)
  \/ \E id \in AuthorIds, authorid \in AuthorIds : author_delete_post(id, authorid)
  \/ \E id \in AuthorIds : author_update_get(id)
  \/ \E id \in AuthorIds : author_update_post(id)
  \/ \E id \in BookIds : book_detail(id)
  \/ book_create_get
  \/ \E form \in BookFormInputs : book_create_post(form)
  \/ \E id \in BookIds : book_delete_get(id)
  \/ \E id \in BookIds, bookid \in BookIds : book_delete_post(id, bookid)
  \/ \E id \in BookIds : book_update_get(id)
  \/ \E id \in BookIds, form \in BookFormInputs : book_update_post(id, form)
  \/ \E book \in BookIds : bookinstance_create_post(book)

Spec == Init /\ [][Next]_vars

(***************************************************************************)
(* Requests in flight together.  A handler runs from one store access to  *)
(* the next without interruption and may be overtaken by other requests   *)
(* at each access; the lookups of a Promise.all complete in either order. *)
(* Each process handles one request.  The delete forms are submitted as   *)
(* rendered: their hidden field carries the identity of the URL.          *)
(***************************************************************************)
Idle == [pc |-> "idle"]
Done == [pc |-> "done"]

InFlight(pc, op, id, body, pending) ==
  [pc |-> pc, op |-> op, id |-> id, body |-> body, pending |-> pending,
   found |-> << >>]

\* the process p with the answer of one of its pending lookups
Answered(p, query, result) ==
  [procs[p] EXCEPT !.pending = @ \ {query}, !.found = Insert(@, query, result)]

Awaits(p, op, pc) == procs[p].pc = pc /\ procs[p].op = op

genre_create_post_begin(p, raw) ==
  /\ procs[p] = Idle
  /\ IF GenreNameErrors(raw) # << >>
     THEN /\ procs' = [procs EXCEPT ![p] = Done]
          /\ resp' = Response("genre_create_post", 0, [name |-> raw],
                        <<Render("genre_form",
                            [title |-> "Create Genre",
                             genre |-> <<[id |-> NewId("Genre"),
                                          name |-> GenreNameSanitized(raw)]>>,
                             errors |-> GenreNameErrors(raw)])>>)
     ELSE /\ procs' = [procs EXCEPT ![p] =
                         InFlight("findOne", "genre_create_post", 0,
                                  [name |-> raw], {})]
          /\ UNCHANGED resp
  /\ UNCHANGED store

genre_create_post_findOne(p) ==
  /\ Awaits(p, "genre_create_post", "findOne")
  /\ LET genreExists == GenresNamedIgnoringCase(GenreNameSanitized(procs[p].body.name))
     IN IF genreExists # {}
        THEN /\ \E e \in genreExists :
                  resp' = Response("genre_create_post", 0, procs[p].body,
                             <<Redirect(GenreUrl(e))>>)
             /\ procs' = [procs EXCEPT ![p] = Done]
        ELSE /\ procs' = [procs EXCEPT ![p].pc = "save"]
             /\ UNCHANGED resp
  /\ UNCHANGED store

\* a save that a unique index on the name would make: a Genre with the name
\* in the store makes it fail
genre_create_post_saveUnique(p) ==
  /\ Awaits(p, "genre_create_post", "save")
  /\ made.Genre < MaxGenres
  /\ LET genre == [id |-> NewId("Genre"),
                   name |-> GenreNameSanitized(procs[p].body.name)]
     IN IF GenresNamedIgnoringCase(genre.name) # {}
        THEN /\ resp' = Response("genre_create_post", 0, procs[p].body,
                           <<NextError("duplicate key", NoStatus)>>)
             /\ UNCHANGED <<genres, made>>
        ELSE /\ genres' = Insert(genres, genre.id, genre)
             /\ made' = [made EXCEPT !.Genre = genre.id]
             /\ resp' = Response("genre_create_post", 0, procs[p].body,
                           <<Redirect(GenreUrl(genre.id))>>)
  /\ procs' = [procs EXCEPT ![p] = Done]
  /\ UNCHANGED <<authors, books, instances>>

genre_create_post_save(p) ==
  /\ Awaits(p, "genre_create_post", "save")
  /\ made.Genre < MaxGenres
  /\ LET genre == [id |-> NewId("Genre"),
                   name |-> GenreNameSanitized(procs[p].body.name)]
     IN /\ genres' = Insert(genres, genre.id, genre)
        /\ made' = [made EXCEPT !.Genre = genre.id]
        /\ resp' = Response("genre_create_post", 0, procs[p].body,
                      <<Redirect(GenreUrl(genre.id))>>)
  /\ procs' = [procs EXCEPT ![p] = Done]
  /\ UNCHANGED <<authors, books, instances>>

genre_delete_post_begin(p, id) ==
  /\ procs[p] = Idle
  /\ procs' = [procs EXCEPT ![p] =
                 InFlight("lookup", "genre_delete_post", id, [genreid |-> id],
                          {"Genre.findById", "Book.find"})]
  /\ UNCHANGED <<store, resp>>

\* one lookup of genre_delete_post completes; after the last the handler goes on
genre_delete_post_lookup(p, query) ==
  /\ Awaits(p, "genre_delete_post", "lookup")
  /\ query \in procs[p].pending
  /\ LET me == Answered(p, query,
                 IF query = "Genre.findById" THEN FindById(genres, procs[p].id)
                 ELSE BooksInGenre(procs[p].id))
     IN IF me.pending # {}
        THEN procs' = [procs EXCEPT ![p] = me] /\ UNCHANGED resp
        ELSE IF Cardinality(me.found["Book.find"]) > 0
        THEN /\ resp' = Response("genre_delete_post", me.id, me.body,
                           <<Render("genre_delete",
                               [title |-> "Delete Genre",
                                genre |-> me.found["Genre.findById"],
                                genre_books |-> me.found["Book.find"]])>>)
             /\ procs' = [procs EXCEPT ![p] = Done]
        ELSE procs' = [procs EXCEPT ![p] = [me EXCEPT !.pc = "delete"]]
             /\ UNCHANGED resp
  /\ UNCHANGED store

genre_delete_post_delete(p) ==
  /\ Awaits(p, "genre_delete_post", "delete")
  /\ genres' = Remove(genres, procs[p].body.genreid)
  /\ resp' = Response("genre_delete_post", procs[p].id, procs[p].body,
                <<Redirect(GenresUrl)>>)
  /\ procs' = [procs EXCEPT ![p] = Done]
  /\ UNCHANGED <<authors, books, instances, made>>

author_delete_post_begin(p, id) ==
  /\ procs[p] = Idle
  /\ procs' = [procs EXCEPT ![p] =
                 InFlight("lookup", "author_delete_post", id, [authorid |-> id],
                          {"Author.findById", "Book.find"})]
  /\ UNCHANGED <<store, resp>>

author_delete_post_lookup(p, query) ==
  /\ Awaits(p, "author_delete_post", "lookup")
  /\ query \in procs[p].pending
  /\ LET me == Answered(p, query,
                 IF query = "Author.findById" THEN FindById(authors, procs[p].id)
                 ELSE BooksByAuthor(procs[p].id))
     IN IF me.pending # {}
        THEN procs' = [procs EXCEPT ![p] = me] /\ UNCHANGED resp
        ELSE IF Cardinality(me.found["Book.find"]) > 0
        THEN /\ resp' = Response("author_delete_post", me.id, me.body,
                           <<Render("author_delete",
                               [title |-> "Delete Author",
                                author |-> me.found["Author.findById"],
                                author_books |-> me.found["Book.find"]])>>)
             /\ procs' = [procs EXCEPT ![p] = Done]
        ELSE procs' = [procs EXCEPT ![p] = [me EXCEPT !.pc = "delete"]]
             /\ UNCHANGED resp
  /\ UNCHANGED store

author_delete_post_delete(p) ==
  /\ Awaits(p, "author_delete_post", "delete")
  /\ authors' = Remove(authors, procs[p].body.authorid)
  /\ resp' = Response("author_delete_post", procs[p].id, procs[p].body,
                <<Redirect(AuthorsUrl)>>)
  /\ procs' = [procs EXCEPT ![p] = Done]
  /\ UNCHANGED <<genres, books, instances, made>>

book_create_post_begin(p, form) ==
  /\ procs[p] = Idle
  /\ procs' = [procs EXCEPT ![p] =
                 IF BookFormErrors(form, "ISBN must not be empty") # << >>
                 THEN InFlight("lookup", "book_create_post", 0, form,
                               {"Author.find", "Genre.find"})
                 ELSE InFlight("save", "book_create_post", 0, form, {})]
  /\ UNCHANGED <<store, resp>>

\* one lookup of the rejected form completes; after the last it is rendered
book_create_post_lookup(p, query) ==
  /\ Awaits(p, "book_create_post", "lookup")
  /\ query \in procs[p].pending
  /\ LET me == Answered(p, query,
                 IF query = "Author.find" THEN AuthorsSorted(DOMAIN authors)
                 ELSE GenresSorted(DOMAIN genres))
         book == BookOfForm(NewId("Book"), me.body)
     IN IF me.pending # {}
        THEN procs' = [procs EXCEPT ![p] = me] /\ UNCHANGED resp
        ELSE /\ resp' = Response("book_create_post", 0, me.body,
                           <<Render("book_form",
                               [title |-> "Create Book",
                                authors |-> me.found["Author.find"],
                                genres |-> MarkChecked(me.found["Genre.find"],
                                                       book.genre),
                                book |-> <<book>>,
                                errors |-> BookFormErrors(me.body,
                                             "ISBN must not be empty")])>>)
             /\ procs' = [procs EXCEPT ![p] = Done]
  /\ UNCHANGED store

book_create_post_save(p) ==
  /\ Awaits(p, "book_create_post", "save")
  /\ made.Book < MaxBooks
  /\ LET book == BookOfForm(NewId("Book"), procs[p].body)
     IN /\ books' = Insert(books, book.id, book)
        /\ made' = [made EXCEPT !.Book = book.id]
        /\ resp' = Response("book_create_post", 0, procs[p].body,
                      <<Redirect(BookUrl(book.id))>>)
  /\ procs' = [procs EXCEPT ![p] = Done]
  /\ UNCHANGED <<genres, authors, instances>>

\* the stores the concurrent requests start from: the empty one, and the one
\* a Genre create and an Author create leave behind
SeededGenre == [id |-> 1, name |-> GenreNameSanitized(<<"S","c","i">>)]
SeededAuthor ==
  AuthorOfForm(1, [first_name |-> <<" ","P","a","t"," ">>,
                   family_name |-> <<"D","o","e">>,
                   date_of_birth |-> <<"1","9","8","0","-","0","1","-","0","1">>,
                   date_of_death |-> << >>])

InitConcurrent ==
  /\ \/ /\ genres = << >>
        /\ authors = << >>
        /\ made = [Genre |-> 0, Author |-> 0, Book |-> 0, BookInstance |-> 0]
     \/ /\ genres = Insert(<< >>, 1, SeededGenre)
        /\ authors = Insert(<< >>, 1, SeededAuthor)
        /\ made = [Genre |-> 1, Author |-> 1, Book |-> 0, BookInstance |-> 0]
  /\ books = << >>
  /\ instances = << >>
  /\ resp = [op |-> "none", id |-> 0, body |-> << >>, calls |-> << >>]
  /\ procs = [p \in Procs |-> Idle]

NextConcurrent ==
  \E p \in Procs :
    \/ \E raw \in GenreNameInputs : genre_create_post_begin(p, raw)
    \/ genre_create_post_findOne(p)
    \/ genre_create_post_save(p)
    \/ \E id \in GenreIds : genre_delete_post_begin(p, id)
    \/ \E query \in {"Genre.findById", "Book.find"} : genre_delete_post_lookup(p, query)
    \/ genre_delete_post_delete(p)
    \/ \E id \in AuthorIds : author_delete_post_begin(p, id)
    \/ \E query \in {"Author.findById", "Book.find"} : author_delete_post_lookup(p, query)
    \/ author_delete_post_delete(p)
    \/ \E form \in BookFormInputs : book_create_post_begin(p, form)
    \/ \E query \in {"Author.find", "Genre.find"} : book_create_post_lookup(p, query)
    \/ book_create_post_save(p)

SpecConcurrent == InitConcurrent /\ [][NextConcurrent]_vars

(***************************************************************************)
(* The Author model: the virtual property name.  A document holds a field *)
(* only when the path is set; reading a path that is not set gives        *)
(* undefined.                                                              *)
(***************************************************************************)
\* the truth value of a String path: undefined and '' are falsy, every other
\* string (' ' and '0' too) is truthy
Truthy(doc, path) == path \in DOMAIN doc /\ doc[path] # << >>

\* a getter that tests the family name only; undefined is formatted by the
\* template literal as the text undefined
Author_nameFamilyOnly(doc) ==
  IF Truthy(doc, "family_name")
  THEN doc.family_name \o <<",", " ">>
         \o (IF "first_name" \in DOMAIN doc THEN doc.first_name
             ELSE <<"u","n","d","e","f","i","n","e","d">>)
  ELSE << >>

\* AuthorSchema.virtual('name').get
Author_name(doc) ==
  IF Truthy(doc, "first_name") /\ Truthy(doc, "family_name")
  THEN doc.family_name \o <<",", " ">> \o doc.first_name
  ELSE << >>

\* the value a getter returns
Returned(value) == [kind |-> "return", value |-> value]

\* values of a name path that is set
NameTexts == { << >>, <<" ">>, <<"0">>, <<"P","a","t">> }

DateValues == { NoDate, <<[year |-> 1980, month |-> 1, day |-> 1]>> }

\* the Author documents with identity id: each name path set or not
AuthorDocs(id) ==
  LET dated == [id : {id}, date_of_birth : DateValues, date_of_death : DateValues]
  IN UNION { { [id |-> d.id, date_of_birth |-> d.date_of_birth,
                date_of_death |-> d.date_of_death] : d \in dated },
             { [id |-> d.id, first_name |-> f, date_of_birth |-> d.date_of_birth,
                date_of_death |-> d.date_of_death] : d \in dated, f \in NameTexts },
             { [id |-> d.id, family_name |-> f, date_of_birth |-> d.date_of_birth,
                date_of_death |-> d.date_of_death] : d \in dated, f \in NameTexts },
             { [id |-> d.id, first_name |-> f, family_name |-> g,
                date_of_birth |-> d.date_of_birth,
                date_of_death |-> d.date_of_death] :
                  d \in dated, f \in NameTexts, g \in NameTexts } }

\* reading author.name of the document with identity id
Author_name_get(id) ==
  /\ id \in DOMAIN authors
  /\ resp' = Response("Author.name", id, NoBody, <<Returned(Author_name(authors[id]))>>)
  /\ UNCHANGED <<store, procs>>

\* any Author documents, whatever paths they have set
InitAuthorName ==
  /\ genres = << >>
  /\ books = << >>
  /\ instances = << >>
  /\ \E ids \in SUBSET AuthorIds :
       /\ authors \in [ids -> UNION {AuthorDocs(i) : i \in ids}]
       /\ \A i \in ids : authors[i].id = i
       /\ made = [Genre |-> 0, Author |-> Cardinality(ids), Book |-> 0,
                  BookInstance |-> 0]
  /\ resp = [op |-> "none", id |-> 0, body |-> << >>, calls |-> << >>]
  /\ procs = [p \in Procs |-> [pc |-> "idle"]]

NextAuthorName == \E id \in AuthorIds : Author_name_get(id)

SpecAuthorName == InitAuthorName /\ [][NextAuthorName]_vars

(***************************************************************************)
(* Vocabulary of the properties.                                           *)
(***************************************************************************)
\* the Books that hold x in their genre list, and those whose author is x
ReferencingGenre(x) ==
  {b \in DOMAIN books : \E i \in DOMAIN books[b].genre : books[b].genre[i] = x}
ReferencingAuthor(x) == {b \in DOMAIN books : books[b].author = x}
CopiesOf(x) == {i \in DOMAIN instances : instances[i].book = x}

\* the response r is the one call: a redirect to url
RedirectedTo(r, url) ==
  Len(r.calls) = 1 /\ r.calls[1].kind = "redirect" /\ r.calls[1].url = url

\* the response r is the one call: the rendering of view
Rendered(r, view) ==
  Len(r.calls) = 1 /\ r.calls[1].kind = "render" /\ r.calls[1].view = view

\* coll' is coll without the document x, every other document as it was
RemovedOnly(coll, collNext, x) ==
  /\ DOMAIN collNext = DOMAIN coll \ {x}
  /\ \A y \in DOMAIN collNext : collNext[y] = coll[y]

\* C1: a delete POST for an Author or Genre X (the URL and the form both name
\* X) leaves the store unchanged and renders the delete view listing exactly
\* the Books that reference X when there is one; it removes X and nothing else
\* and redirects to the listing when there is none.
C1_DeleteBlockedByBooks ==
  [][ /\ ( /\ resp'.op = "genre_delete_post"
           /\ resp'.id \in DOMAIN genres
           /\ resp'.body.genreid = resp'.id )
         => IF ReferencingGenre(resp'.id) # {}
            THEN /\ store' = store
                 /\ Rendered(resp', "genre_delete")
                 /\ {b.id : b \in resp'.calls[1].locals.genre_books}
                      = ReferencingGenre(resp'.id)
            ELSE /\ RemovedOnly(genres, genres', resp'.id)
                 /\ UNCHANGED <<authors, books, instances>>
                 /\ RedirectedTo(resp', GenresUrl)
      /\ ( /\ resp'.op = "author_delete_post"
           /\ resp'.id \in DOMAIN authors
           /\ resp'.body.authorid = resp'.id )
         => IF ReferencingAuthor(resp'.id) # {}
            THEN /\ store' = store
                 /\ Rendered(resp', "author_delete")
                 /\ {b.id : b \in resp'.calls[1].locals.author_books}
                      = ReferencingAuthor(resp'.id)
            ELSE /\ RemovedOnly(authors, authors', resp'.id)
                 /\ UNCHANGED <<genres, books, instances>>
                 /\ RedirectedTo(resp', AuthorsUrl) ]_vars

\* a Genre delete POST was answered with the view that lists the blocking Books
C1_Witness ==
  /\ resp.op = "genre_delete_post"
  /\ resp.id \in DOMAIN genres
  /\ resp.body.genreid = resp.id
  /\ Rendered(resp, "genre_delete")
  /\ resp.calls[1].locals.genre_books # {}

\* no two Genres have names that are equal ignoring case
NoCaseDuplicates ==
  \A g, h \in DOMAIN genres :
    g # h => LowerCase(genres[g].name) # LowerCase(genres[h].name)

\* C2: a Genre create POST with a valid name (the name as sanitized: trimmed
\* and escaped) adds no record and redirects to a stored Genre of that name
\* ignoring case when there is one; otherwise it adds exactly one Genre, of
\* that name, and redirects to it.  So a create keeps the names distinct
\* ignoring case.
C2_CreateOnceIgnoringCase ==
  [][ ( /\ resp'.op = "genre_create_post"
        /\ Len(Trim(resp'.body.name)) >= MinGenreName )
      => LET name == Escape(Trim(resp'.body.name))
             same == {g \in DOMAIN genres : LowerCase(genres[g].name) = LowerCase(name)}
         IN /\ IF same # {}
               THEN /\ store' = store
                    /\ \E g \in same : RedirectedTo(resp', GenreUrl(g))
               ELSE /\ \E n \in DOMAIN genres' \ DOMAIN genres :
                         /\ DOMAIN genres' = DOMAIN genres \cup {n}
                         /\ genres'[n].name = name
                         /\ genres'[n].id = n
                         /\ RedirectedTo(resp', GenreUrl(n))
                    /\ \A g \in DOMAIN genres : genres'[g] = genres[g]
                    /\ UNCHANGED <<authors, books, instances>>
            /\ NoCaseDuplicates => NoCaseDuplicates' ]_vars

\* a create of a name that differs only by case from a stored one was
\* answered with a redirect to the stored Genre
C2_Witness ==
  /\ resp.op = "genre_create_post"
  /\ \E g \in DOMAIN genres :
       /\ RedirectedTo(resp, GenreUrl(g))
       /\ genres[g].name # Escape(Trim(resp.body.name))
       /\ LowerCase(genres[g].name) = LowerCase(Escape(Trim(resp.body.name)))

\* C4: every identity in every Book's genre list is the identity of a stored Genre
C4_GenreReferencesExist ==
  \A b \in DOMAIN books :
    \A i \in DOMAIN books[b].genre : books[b].genre[i] \in DOMAIN genres

\* C5: a delete GET or POST whose target has no record is answered with a
\* redirect to the listing and nothing else, and leaves the store unchanged
C5_DeleteOfMissingRedirects ==
  [][ /\ ( /\ resp'.op \in {"genre_delete_get", "genre_delete_post"}
           /\ resp'.id \notin DOMAIN genres
           /\ resp'.op = "genre_delete_post" => resp'.body.genreid = resp'.id )
         => RedirectedTo(resp', GenresUrl) /\ store' = store
      /\ ( /\ resp'.op \in {"author_delete_get", "author_delete_post"}
           /\ resp'.id \notin DOMAIN authors
           /\ resp'.op = "author_delete_post" => resp'.body.authorid = resp'.id )
         => RedirectedTo(resp', AuthorsUrl) /\ store' = store
      /\ ( /\ resp'.op \in {"book_delete_get", "book_delete_post"}
           /\ resp'.id \notin DOMAIN books
           /\ resp'.op = "book_delete_post" => resp'.body.bookid = resp'.id )
         => RedirectedTo(resp', BooksUrl) /\ store' = store ]_vars

\* the response r is a not-found error handed to the error handler, alone
NotFound(r) ==
  /\ Len(r.calls) = 1
  /\ r.calls[1].kind = "next"
  /\ ErrorStatus(r.calls[1]) = 404

\* C6: on the detail and update paths a missing record is answered with a
\* not-found error of status 404 and nothing else, the store unchanged
C6_MissingRecordIs404 ==
  [][ /\ ( /\ resp'.op \in {"genre_detail", "genre_update_get"}
           /\ resp'.id \notin DOMAIN genres )
         => NotFound(resp') /\ store' = store
      /\ ( /\ resp'.op = "author_detail"
           /\ resp'.id \notin DOMAIN authors )
         => NotFound(resp') /\ store' = store
      /\ ( /\ resp'.op \in {"book_detail", "book_update_get"}
           /\ resp'.id \notin DOMAIN books )
         => NotFound(resp') /\ store' = store
      /\ ( /\ resp'.op = "genre_update_post"
           /\ resp'.id \notin DOMAIN genres
           /\ Len(Trim(resp'.body.name)) >= MinGenreName )
         => NotFound(resp') /\ store' = store
      /\ ( /\ resp'.op = "book_update_post"
           /\ resp'.id \notin DOMAIN books
           /\ Trim(resp'.body.title) # << >>
           /\ resp'.body.author # 0
           /\ Trim(resp'.body.summary) # << >>
           /\ Trim(resp'.body.isbn) # << >> )
         => NotFound(resp') /\ store' = store ]_vars

\* C7: a Genre update POST for X with a valid name N (as sanitized) leaves the
\* store unchanged and redirects to a stored Genre named exactly N when there
\* is one; otherwise the record at X gets the name N and keeps its identity,
\* nothing is added or removed, and the response redirects to X.
C7_UpdateComparesExactly ==
  [][ ( /\ resp'.op = "genre_update_post"
        /\ Len(Trim(resp'.body.name)) >= MinGenreName )
      => LET N == Escape(Trim(resp'.body.name))
             X == resp'.id
         IN IF \E g \in DOMAIN genres : genres[g].name = N
            THEN /\ store' = store
                 /\ \E g \in DOMAIN genres :
                      genres[g].name = N /\ RedirectedTo(resp', GenreUrl(g))
            ELSE X \in DOMAIN genres
                 => /\ DOMAIN genres' = DOMAIN genres
                    /\ genres'[X].name = N
                    /\ genres'[X].id = X
                    /\ \A g \in DOMAIN genres \ {X} : genres'[g] = genres[g]
                    /\ UNCHANGED <<authors, books, instances>>
                    /\ RedirectedTo(resp', GenreUrl(X)) ]_vars

\* an update gave X a name that another Genre carries in another case
C7_Witness ==
  /\ resp.op = "genre_update_post"
  /\ resp.id \in DOMAIN genres
  /\ RedirectedTo(resp, GenreUrl(resp.id))
  /\ genres[resp.id].name = Escape(Trim(resp.body.name))
  /\ \E g \in DOMAIN genres \ {resp.id} :
       /\ genres[g].name # genres[resp.id].name
       /\ LowerCase(genres[g].name) = LowerCase(genres[resp.id].name)

\* C8 as stated: a Book delete POST for a stored Book removes it and redirects
\* to the listing, whether or not copies reference it
C8_BookDeletedUnconditionally ==
  [][ ( /\ resp'.op = "book_delete_post"
        /\ resp'.id \in DOMAIN books
        /\ resp'.body.bookid = resp'.id )
      => /\ RemovedOnly(books, books', resp'.id)
         /\ RedirectedTo(resp', BooksUrl) ]_vars

\* C8 as amended: a Book delete POST for a stored Book leaves the store
\* unchanged and renders the delete view listing the copies that reference
\* the Book when there is one; it removes the Book and nothing else and
\* redirects to the listing when there is none.
C8_BookDeleteBlockedByCopies ==
  [][ ( /\ resp'.op = "book_delete_post"
        /\ resp'.id \in DOMAIN books
        /\ resp'.body.bookid = resp'.id )
      => IF CopiesOf(resp'.id) # {}
         THEN /\ store' = store
              /\ Rendered(resp', "book_delete")
              /\ {i.id : i \in resp'.calls[1].locals.book_instances}
                   = CopiesOf(resp'.id)
         ELSE /\ RemovedOnly(books, books', resp'.id)
              /\ UNCHANGED <<genres, authors, instances>>
              /\ RedirectedTo(resp', BooksUrl) ]_vars

\* a Book delete POST was answered with the view that lists the Book's copies
C8_Witness ==
  /\ resp.op = "book_delete_post"
  /\ resp.id \in DOMAIN books
  /\ resp.body.bookid = resp.id
  /\ Rendered(resp, "book_delete")
  /\ resp.calls[1].locals.book_instances # {}

\* a required text field is blank
Blank(raw) == \A i \in DOMAIN raw : raw[i] = " "

\* a name field holds something other than letters and digits
NotAName(raw) ==
  Blank(raw) \/ \E i \in DOMAIN Trim(raw) :
                   /\ Trim(raw)[i] \notin Range(UpperLetters)
                   /\ Trim(raw)[i] \notin Range(LowerLetters)
                   /\ Trim(raw)[i] \notin Range(DigitChars)

\* the submitted form of request r fails the rule of one field at least
FailsValidation(r) ==
  \/ /\ r.op \in {"genre_create_post", "genre_update_post"}
     /\ Len(Trim(r.body.name)) < MinGenreName
  \/ /\ r.op = "author_create_post"
     /\ \/ NotAName(r.body.first_name)
        \/ NotAName(r.body.family_name)
        \/ r.body.date_of_birth # << >> /\ ~IsISO8601(r.body.date_of_birth)
        \/ r.body.date_of_death # << >> /\ ~IsISO8601(r.body.date_of_death)
  \/ /\ r.op \in {"book_create_post", "book_update_post"}
     /\ \/ Blank(r.body.title)
        \/ r.body.author = 0
        \/ Blank(r.body.summary)
        \/ Blank(r.body.isbn)

FormOf(op) ==
  CASE op \in {"genre_create_post", "genre_update_post"} -> "genre_form"
    [] op = "author_create_post" -> "author_form"
    [] op \in {"book_create_post", "book_update_post"} -> "book_form"

\* C9: a create or update POST with a field that fails validation renders the
\* form again with a non-empty error list, redirects nowhere, and leaves
\* every record as it was
C9_InvalidFormIsRejected ==
  [][ ( /\ resp'.op \in {"genre_create_post", "genre_update_post",
                         "author_create_post", "book_create_post",
                         "book_update_post"}
        /\ FailsValidation(resp') )
      => /\ store' = store
         /\ Rendered(resp', FormOf(resp'.op))
         /\ resp'.calls[1].locals.errors # << >> ]_vars

\* a Book update with a blank field was answered with the form and its errors
C9_Witness ==
  /\ resp.op = "book_update_post"
  /\ resp.id \in DOMAIN books
  /\ FailsValidation(resp)
  /\ Rendered(resp, "book_form")
  /\ resp.calls[1].locals.errors # << >>

\* the identities a submitted genre field selects
Selected(genre) ==
  CASE genre.type = "undefined" -> {}
    [] genre.type = "string" -> {genre.value}
    [] genre.type = "array" -> Range(genre.items)

\* C10: a Book created with a genre field that selects stored Genres, fetched
\* by book_detail as the next request, is rendered with a genre list that
\* holds exactly the records of the selected Genres
C10_CreatedGenresAreListed ==
  [][ \A b \in BookIds :
        ( /\ resp.op = "book_create_post"
          /\ RedirectedTo(resp, BookUrl(b))
          /\ Selected(resp.body.genre) \subseteq DOMAIN genres
          /\ resp'.op = "book_detail"
          /\ resp'.id = b )
        => /\ Rendered(resp', "book_detail")
           /\ Range(resp'.calls[1].locals.book[1].genre)
                = {genres[g] : g \in Selected(resp.body.genre)} ]_vars

\* the detail view of a Book lists the records of two Genres
C10_Witness ==
  /\ resp.op = "book_detail"
  /\ Rendered(resp, "book_detail")
  /\ Cardinality(Range(resp.calls[1].locals.book[1].genre)) = 2
  /\ Range(resp.calls[1].locals.book[1].genre) \subseteq Range(genres)

\* C3: at the step where a delete handler performs its delete write on a
\* stored Author or Genre X, no Book has X as author or in its genre list
C3_NeverDeletedWhileReferenced ==
  [][ \A p \in Procs :
        /\ ( /\ Awaits(p, "genre_delete_post", "delete")
             /\ procs'[p] = Done
             /\ procs[p].body.genreid \in DOMAIN genres )
           => ReferencingGenre(procs[p].body.genreid) = {}
        /\ ( /\ Awaits(p, "author_delete_post", "delete")
             /\ procs'[p] = Done
             /\ procs[p].body.authorid \in DOMAIN authors )
           => ReferencingAuthor(procs[p].body.authorid) = {} ]_vars

\* the collection the genre field of a submitted form stands for
Normalized(genre) ==
  CASE genre.type = "undefined" -> << >>
    [] genre.type = "string" -> <<genre.value>>
    [] genre.type = "array" -> genre.items

\* C11: in Book create and Book update the candidate Book's genre list is the
\* submitted genre field as a collection: empty for an absent field, [v] for a
\* single value v, the list itself for a list.  The candidate is the book
\* rendered back with the form when validation fails and the Book stored
\* otherwise; an absent genre field alone never makes validation fail.
C11_GenreFieldBecomesCollection ==
  [][ ( resp'.op \in {"book_create_post", "book_update_post"} )
      => /\ Rendered(resp', "book_form")
            => /\ resp'.calls[1].locals.book[1].genre = Normalized(resp'.body.genre)
               /\ FailsValidation(resp')
         /\ ( resp'.op = "book_create_post" /\ ~FailsValidation(resp') )
            => /\ RedirectedTo(resp', BookUrl(made'.Book))
               /\ books'[made'.Book].genre = Normalized(resp'.body.genre)
         /\ ( /\ resp'.op = "book_update_post"
              /\ ~FailsValidation(resp')
              /\ resp'.id \in DOMAIN books )
            => /\ RedirectedTo(resp', BookUrl(resp'.id))
               /\ books'[resp'.id].genre = Normalized(resp'.body.genre) ]_vars

\* a Book was created from a form without a genre field and has no genre
C11_Witness ==
  /\ resp.op = "book_create_post"
  /\ resp.body.genre = Undefined
  /\ RedirectedTo(resp, BookUrl(made.Book))
  /\ made.Book \in DOMAIN books
  /\ books[made.Book].genre = << >>

\* a name path of doc is set to a text that is not empty
NonEmpty(doc, path) == path \in DOMAIN doc /\ Len(doc[path]) > 0

\* C12: the full name of an Author is family_name, then ", ", then
\* first_name when both are non-empty, and the empty string when either is
\* missing or empty; reading it changes no record
C12_FullNameOfAuthor ==
  [][ ( resp'.op = "Author.name" )
      => /\ resp'.calls[1].kind = "return"
         /\ LET author == authors[resp'.id]
            IN resp'.calls[1].value
                 = IF NonEmpty(author, "first_name") /\ NonEmpty(author, "family_name")
                   THEN author.family_name \o <<",", " ">> \o author.first_name
                   ELSE << >>
         /\ store' = store ]_vars

\* the name of an Author without a first name was read and is empty
C12_Witness ==
  /\ resp.op = "Author.name"
  /\ NonEmpty(authors[resp.id], "family_name")
  /\ "first_name" \notin DOMAIN authors[resp.id]
  /\ resp.calls[1].value = << >>

\* C13: two Genre creates with the same valid name that run together can
\* both insert.  The duplicate check of a request passes whenever the store
\* holds no Genre of the name, whatever other requests are in flight, and the
\* save of a request that passed the check inserts its record whatever the
\* store holds by then; the interleaving with both lookups before either save
\* ends with two Genres of one name (the witness).
C13_BothCreatesInsert ==
  [][ \A p \in Procs :
        /\ ( /\ Awaits(p, "genre_create_post", "findOne")
             /\ procs'[p] # procs[p]
             /\ GenresNamedIgnoringCase(GenreNameSanitized(procs[p].body.name)) = {} )
           => /\ Awaits(p, "genre_create_post", "save")'
              /\ store' = store
        /\ ( /\ Awaits(p, "genre_create_post", "save")
             /\ procs'[p] # procs[p] )
           => /\ procs'[p] = Done
              /\ made'.Genre \notin DOMAIN genres
              /\ DOMAIN genres' = DOMAIN genres \cup {made'.Genre}
              /\ \A g \in DOMAIN genres : genres'[g] = genres[g]
              /\ genres'[made'.Genre].name = GenreNameSanitized(procs[p].body.name)
              /\ RedirectedTo(resp', GenreUrl(made'.Genre)) ]_vars

\* both requests are answered and the store holds two Genres of one name
C13_Witness ==
  /\ \A p \in Procs : procs[p] = Done
  /\ resp.op = "genre_create_post"
  /\ \E g, h \in DOMAIN genres :
       /\ g # h
       /\ genres[g].name = genres[h].name
       /\ genres[g].name = GenreNameSanitized(resp.body.name)

\* C14: the record a delete POST removes is the record whose dependents the
\* request looked up: the identity of the removed record is the identity of
\* the URL, which the lookups were made for, and nothing referenced it
C14_DeletedRecordWasChecked ==
  [][ /\ ( resp'.op = "genre_delete_post" /\ genres' # genres )
         => /\ RemovedOnly(genres, genres', resp'.id)
            /\ ReferencingGenre(resp'.body.genreid) = {}
      /\ ( resp'.op = "author_delete_post" /\ authors' # authors )
         => /\ RemovedOnly(authors, authors', resp'.id)
            /\ ReferencingAuthor(resp'.body.authorid) = {}
      /\ ( resp'.op = "book_delete_post" /\ books' # books )
         => /\ RemovedOnly(books, books', resp'.id)
            /\ CopiesOf(resp'.body.bookid) = {} ]_vars

====
